---- MODULE Spec2Model ----
(***************************************************************************)
(* CleanAirSight backend: the data harmonizer (unit normalizer, AQI        *)
(* calculator, batch harmonization), the spatio-temporal validator and     *)
(* anomaly flagger, and the forecasting engine.                            *)
(*                                                                         *)
(* Numbers.  The Python code computes with floats; the model computes with *)
(* exact fixed-point integers and does not model float evaluation error:   *)
(*   - a concentration handed to calculate_aqi is counted in 1/20 ug/m3,   *)
(*     the breakpoint table is written in 1/10 ug/m3;                      *)
(*   - a raw measurement value is an integer count of its raw unit, a      *)
(*     normalized value is counted in 1/1000 ug/m3, and the conversion     *)
(*     factors are written in thousandths (1.88 is 1880).                  *)
(***************************************************************************)
EXTENDS Integers, Sequences, FiniteSets, TLC

VARIABLES
    call,             \* the invocation under examination: the operation and its arguments
    ret,              \* its outcome: NoRet before it ran, then a return value or a raise
    models,           \* ForecastingEngine.models: dict pollutant -> trained model
    feature_columns,  \* ForecastingEngine.feature_columns: the engine's one column list
    model_dir,        \* the files under model_dir: dict <<pollutant, model_type>> -> artifact
    selected_columns, \* the column list the last predict selected from last_row
    X_pred,           \* the feature rows the last predict handed to the model, one a step
    running,          \* DataScheduler: job id -> its instances in progress, each at an await
    refused,          \* the job ids a run of which the scheduler has skipped
    log,              \* the warnings and errors the scheduled jobs have logged
    db,               \* the database: which collections hold documents of the scheduled jobs
    services_available \* NASAServicesIntegration.services_available

vars == <<call, ret, models, feature_columns, model_dir, selected_columns, X_pred,
          running, refused, log, db, services_available>>

\* The forecasting engine's state; the harmonizer and the validator never touch it.
engine == <<models, feature_columns, model_dir, selected_columns, X_pred>>

\* The scheduler's state; only the scheduled jobs touch it.
scheduler == <<running, refused, log, db>>

\* The NASA services integration's state.
nasa == <<services_available>>

\* The engine-related and processing jobs DataScheduler.start registers.
JobIds == {"harmonize_validate", "generate_forecasts", "retrain_models"}

\* The collections the scheduled jobs write, all without documents: whether
\* harmonized_data and validation_results hold any, and the pollutants forecasts
\* holds points of.
EmptyDatabase == [harmonized_data |-> FALSE, validation_results |-> FALSE, forecasts |-> {}]

\* The scheduler after start(), no job running yet, over an empty database.
SchedulerInit ==
    /\ running = [job \in JobIds |-> <<>>]
    /\ refused = {}
    /\ log = {}
    /\ db = EmptyDatabase

\* Marks that no NASAServicesIntegration object has been constructed.
NotConstructed == "<not constructed>"

\* The processes of the other components never import nasa_integration.
NasaInit == services_available = NotConstructed

\* A Python dict is a function on its keys; this is {}.
EmptyDict == [k \in {} |-> k]

\* Marks that no predict has reached the selection from last_row yet.
NotSelected == <<"<not selected>">>

\* ForecastingEngine.__init__ over an empty model directory.
EngineInit ==
    /\ models = EmptyDict
    /\ feature_columns = <<>>
    /\ model_dir = EmptyDict
    /\ selected_columns = NotSelected
    /\ X_pred = <<>>

NoRet == [kind |-> "pending"]
Return(v) == [kind |-> "return", value |-> v]
Raise(e) == [kind |-> "raise", exc |-> e]

\* Python values of a dynamically typed field: a number, None, a float NaN, a string
\* that is no number.  Tagged, so that values of different types can be compared.
Num(n) == [t |-> "num", v |-> n]
None == [t |-> "None"]
NaN == [t |-> "nan"]
Str(s) == [t |-> "str", s |-> s]
IsNum(x) == x.t = "num"

\* A key that a dict does not carry (for the string-valued key "unit").
Absent == "<absent>"

(***************************************************************************)
(* DataHarmonizer.calculate_aqi                                            *)
(***************************************************************************)

\* (C_low, C_high, I_low, I_high), concentrations in 1/10 ug/m3.
breakpoints ==
    ("PM2.5" :> << <<0, 120, 0, 50>>, <<121, 354, 51, 100>>, <<355, 554, 101, 150>>,
                   <<555, 1504, 151, 200>>, <<1505, 2504, 201, 300>>,
                   <<2505, 5004, 301, 500>> >>) @@
    ("PM10" :> << <<0, 540, 0, 50>>, <<550, 1540, 51, 100>>, <<1550, 2540, 101, 150>>,
                  <<2550, 3540, 151, 200>>, <<3550, 4240, 201, 300>>,
                  <<4250, 6040, 301, 500>> >>) @@
    ("O3" :> << <<0, 540, 0, 50>>, <<550, 700, 51, 100>>, <<710, 850, 101, 150>>,
                <<860, 1050, 151, 200>>, <<1060, 2000, 201, 300>> >>) @@
    ("NO2" :> << <<0, 530, 0, 50>>, <<540, 1000, 51, 100>>, <<1010, 3600, 101, 150>>,
                 <<3610, 6490, 151, 200>>, <<6500, 12490, 201, 300>>,
                 <<12500, 20490, 301, 500>> >>)

categories ==
    << "Good", "Moderate", "Unhealthy for Sensitive Groups", "Unhealthy",
       "Very Unhealthy", "Hazardous" >>

Min(a, b) == IF a <= b THEN a ELSE b
Max(a, b) == IF a >= b THEN a ELSE b
Abs(a) == IF a >= 0 THEN a ELSE -a

\* int() in place of round(): the fraction is cut off.
PyRound_Truncated(num, den) == num \div den

\* Python's round() of the non-negative rational num/den: to the nearest integer,
\* a tie to the even neighbour.
PyRound(num, den) ==
    LET fl == num \div den
        r2 == 2 * (num - fl * den)
    IN  IF r2 > den THEN fl + 1
        ELSE IF r2 < den THEN fl
        ELSE IF fl % 2 = 0 THEN fl ELSE fl + 1

\* The breakpoint rows of `pollutant` whose range holds `concentration` (1/20 ug/m3),
\* in table order: the loop returns at the first.
MatchingBreakpoints_OpenTop(pollutant, concentration) ==
    { i \in 1..Len(breakpoints[pollutant]) :
        /\ 2 * breakpoints[pollutant][i][1] <= concentration
        /\ (concentration <= 2 * breakpoints[pollutant][i][2]
              \/ i = Len(breakpoints[pollutant])) }

MatchingBreakpoints(pollutant, concentration) ==
    { i \in 1..Len(breakpoints[pollutant]) :
        /\ 2 * breakpoints[pollutant][i][1] <= concentration
        /\ concentration <= 2 * breakpoints[pollutant][i][2] }

\* The unrounded aqi of row bp as the rational AqiNum/AqiDen:
\* ((i_high - i_low) / (c_high - c_low)) * (concentration - c_low) + i_low.
AqiDen(bp) == 2 * (bp[2] - bp[1])
AqiNum(bp, concentration) ==
    (bp[4] - bp[3]) * (concentration - 2 * bp[1]) + bp[3] * AqiDen(bp)

\* category_index = min(int(aqi / 50), len(categories) - 1), 0-based in the code.
CategoryIndex(bp, concentration) ==
    Min(AqiNum(bp, concentration) \div (50 * AqiDen(bp)), Len(categories) - 1)

calculate_aqi(pollutant, concentration) ==
    IF pollutant \notin DOMAIN breakpoints
    THEN [aqi |-> None, category |-> "Unknown"]
    ELSE LET hits == MatchingBreakpoints(pollutant, concentration)
         IN  IF hits = {}
             THEN [aqi |-> 500, category |-> "Hazardous"]
             ELSE LET i == CHOOSE j \in hits : \A k \in hits : j <= k
                      bp == breakpoints[pollutant][i]
                  IN  [aqi |-> PyRound(AqiNum(bp, concentration), AqiDen(bp)),
                       category |-> categories[CategoryIndex(bp, concentration) + 1]]

\* Bounds of the concentrations examined: every 1/20 ug/m3 up to MaxFineConc/20, and
\* every whole ug/m3 up to MaxWholeConc.
MaxFineConc == 10200
MaxWholeConc == 2100

AqiPollutants == {"PM2.5", "PM10", "O3", "NO2", "CO"}
Concentrations == (0..MaxFineConc) \cup { 20 * k : k \in 0..MaxWholeConc }

InitAqi ==
    /\ call \in [op : {"calculate_aqi"}, pollutant : AqiPollutants,
                 concentration : Concentrations]
    /\ ret = NoRet
    /\ EngineInit
    /\ SchedulerInit
    /\ NasaInit

CalculateAqi ==
    /\ call.op = "calculate_aqi"
    /\ ret = NoRet
    /\ ret' = Return(calculate_aqi(call.pollutant, call.concentration))
    /\ UNCHANGED <<call, engine, scheduler, nasa>>

NextAqi == CalculateAqi

SpecAqi == InitAqi /\ [][NextAqi]_vars

(***************************************************************************)
(* DataHarmonizer._normalize_value                                         *)
(***************************************************************************)

\* Conversion factors to ug/m3, in thousandths.
CONVERSION_FACTORS ==
    ("NO2" :> (("ppb" :> 1880) @@ ("ppm" :> 1880000) @@ ("ug/m3" :> 1000))) @@
    ("O3" :> (("ppb" :> 1960) @@ ("ppm" :> 1960000) @@ ("ug/m3" :> 1000))) @@
    ("PM2.5" :> (("ug/m3" :> 1000) @@ ("mg/m3" :> 1000000))) @@
    ("PM10" :> (("ug/m3" :> 1000) @@ ("mg/m3" :> 1000000))) @@
    ("CO" :> (("ppb" :> 1145) @@ ("ppm" :> 1145000) @@ ("mg/m3" :> 1000000)
              @@ ("ug/m3" :> 1000))) @@
    ("SO2" :> (("ppb" :> 2620) @@ ("ppm" :> 2620000) @@ ("ug/m3" :> 1000))) @@
    ("HCHO" :> (("ppb" :> 1230) @@ ("ppm" :> 1230000) @@ ("ug/m3" :> 1000)))

\* A unit missing from the pollutant's table converts by 0: the value is lost.
conversion_DefaultZero(pollutant, unit) ==
    IF unit \in DOMAIN CONVERSION_FACTORS[pollutant]
    THEN CONVERSION_FACTORS[pollutant][unit] ELSE 0

\* self.CONVERSION_FACTORS[pollutant].get(unit, 1.0), in thousandths.
conversion(pollutant, unit) ==
    IF unit \in DOMAIN CONVERSION_FACTORS[pollutant]
    THEN CONVERSION_FACTORS[pollutant][unit] ELSE 1000

\* float(x) of a field: the number (here in thousandths when `scale` is 1000), NaN for
\* NaN, TypeError for None, ValueError for a string that is no number.
PyFloat(x, scale) ==
    CASE x.t = "num" -> Return(Num(x.v * scale))
      [] x.t = "nan" -> Return(NaN)
      [] x.t = "None" -> Raise("TypeError")
      [] OTHER -> Raise("ValueError")

\* The outcome of _normalize_value: a value in 1/1000 ug/m3, None for a missing value,
\* or the exception float(value) raises.
_normalize_value(value, pollutant, unit) ==
    IF value.t \in {"None", "nan"}
    THEN Return(None)
    ELSE IF pollutant \notin DOMAIN CONVERSION_FACTORS
    THEN PyFloat(value, 1000)
    ELSE PyFloat(value, conversion(pollutant, unit))

(***************************************************************************)
(* DataHarmonizer.harmonize_all_data                                       *)
(*                                                                         *)
(* A raw record is a dict with the keys timestamp, lat, lon, pollutant_type,*)
(* value and unit (unit may be Absent).  lat and lon are counted in 1/10   *)
(* degree.  A timestamp is [fmt, t]: an ISO-8601 string ("iso"), another   *)
(* string pandas can parse ("text"), a string it cannot parse ("garbage"), *)
(* a datetime object ("datetime") or None ("missing"); t is the hour it    *)
(* denotes.  Weather samples are well-formed: weather_client always sets   *)
(* lat and lon.                                                            *)
(***************************************************************************)

Iso(t) == [fmt |-> "iso", t |-> t]

\* _parse_timestamp; `now` is what datetime.utcnow() reads when it is called.
_parse_timestamp(timestamp, now) ==
    CASE timestamp.fmt \in {"iso", "text"} -> Iso(timestamp.t)
      [] timestamp.fmt = "garbage" -> timestamp
      [] timestamp.fmt = "datetime" -> Iso(timestamp.t)
      [] OTHER -> Iso(now)

NoWeatherContext == [t |-> "absent"]

\* The dict both record harmonizers build inside their try block, or None when
\* float(lat), float(lon) or _normalize_value raised.
HarmonizedRecord(record, unit, data_type, now) ==
    LET lat == PyFloat(record.lat, 1)
        lon == PyFloat(record.lon, 1)
        value == _normalize_value(record.value, record.pollutant_type, unit)
    IN  IF lat.kind = "raise" \/ lon.kind = "raise" \/ value.kind = "raise"
        THEN None
        ELSE [t |-> "record",
              timestamp |-> _parse_timestamp(record.timestamp, now),
              lat |-> lat.value,
              lon |-> lon.value,
              pollutant_type |-> record.pollutant_type,
              value |-> value.value,
              data_type |-> data_type,
              weather_context |-> NoWeatherContext]

\* The satellite record's own unit is not read: "ug/m3" is passed.
_harmonize_tempo_record(record, now) ==
    HarmonizedRecord(record, "ug/m3", "satellite", now)

\* record.get("unit", "ug/m3")
_harmonize_ground_record(record, now) ==
    HarmonizedRecord(record, IF record.unit = Absent THEN "ug/m3" ELSE record.unit,
                     "ground", now)

\* One try block around the loops instead of one per record: the first record that
\* fails ends the batch.
HarmonizeEach_StopAtFirstBad(tempo_data, ground_data, nows) ==
    LET n == Len(tempo_data)
        each == [i \in 1..(n + Len(ground_data)) |->
                    IF i <= n THEN _harmonize_tempo_record(tempo_data[i], nows[i])
                    ELSE _harmonize_ground_record(ground_data[i - n], nows[i])]
        bad == { i \in 1..Len(each) : each[i] = None }
    IN  IF bad = {} THEN each
        ELSE SubSeq(each, 1, (CHOOSE i \in bad : \A j \in bad : i <= j) - 1)

\* The two loops of harmonize_all_data: satellite records first, then ground records,
\* a None dropped.  nows[i] is the clock reading while record i is harmonized.
HarmonizeEach(tempo_data, ground_data, nows) ==
    LET n == Len(tempo_data)
        each == [i \in 1..(n + Len(ground_data)) |->
                    IF i <= n THEN _harmonize_tempo_record(tempo_data[i], nows[i])
                    ELSE _harmonize_ground_record(ground_data[i - n], nows[i])]
    IN  SelectSeq(each, LAMBDA r : r # None)

\* Squared planar distance in (1/10 degree)^2; sqrt(d2) < 0.5 degree iff d2 < 25.
Distance2(lat, lon, w) ==
    (w.lat - lat) * (w.lat - lat) + (w.lon - lon) * (w.lon - lon)

\* _find_nearest_weather: the sample at minimum distance among those closer than 0.5
\* degree, or None.  sort_values on so few rows is an insertion sort, which keeps the
\* input order among equal distances.  A NaN coordinate compares False with 0.5.
_find_nearest_weather(lat, lon, weather_data) ==
    LET near == IF IsNum(lat) /\ IsNum(lon)
                THEN { i \in 1..Len(weather_data) :
                         Distance2(lat.v, lon.v, weather_data[i]) < 25 }
                ELSE {}
        best == { i \in near : \A j \in near :
                    Distance2(lat.v, lon.v, weather_data[i])
                        <= Distance2(lat.v, lon.v, weather_data[j]) }
    IN  IF near = {} THEN None
        ELSE weather_data[CHOOSE i \in best : \A j \in best : i <= j]

_enrich_with_weather(harmonized_data, weather_data) ==
    IF weather_data = <<>>
    THEN harmonized_data
    ELSE [i \in 1..Len(harmonized_data) |->
            LET record == harmonized_data[i]
                nearest_weather ==
                    _find_nearest_weather(record.lat, record.lon, weather_data)
            IN  IF nearest_weather # None
                THEN [record EXCEPT !.weather_context =
                         [t |-> "context", temperature |-> nearest_weather.temperature]]
                ELSE record]

\* Column `col` after fillna(ffill).fillna(bfill): the last number at or before row i,
\* else the first number after it, else NaN.  A None in a numeric column is NaN.
FilledCell(col, i) ==
    LET before == { j \in 1..i : IsNum(col[j]) }
        after == { j \in i..Len(col) : IsNum(col[j]) }
    IN  IF before # {} THEN col[CHOOSE j \in before : \A k \in before : k <= j]
        ELSE IF after # {} THEN col[CHOOSE j \in after : \A k \in after : j <= k]
        ELSE NaN

\* _handle_missing_values: the records through a DataFrame and back.  A key only some
\* records carry (weather_context) becomes a column, NaN where it was missing.
_handle_missing_values(data) ==
    LET some_context == \E i \in 1..Len(data) : data[i].weather_context.t = "context"
    IN  [i \in 1..Len(data) |->
            [data[i] EXCEPT
                !.value = FilledCell([j \in 1..Len(data) |-> data[j].value], i),
                !.lat = FilledCell([j \in 1..Len(data) |-> data[j].lat], i),
                !.lon = FilledCell([j \in 1..Len(data) |-> data[j].lon], i),
                !.weather_context =
                    IF some_context /\ @.t = "absent" THEN NaN ELSE @]]

harmonize_all_data(tempo_data, ground_data, weather_data, nows) ==
    _handle_missing_values(
        _enrich_with_weather(HarmonizeEach(tempo_data, ground_data, nows),
                             weather_data))

\* Bounds of the inputs examined.
MaxRawValue == 2
MaxBatch == 2
MaxWeather == 1

AllPollutants == DOMAIN CONVERSION_FACTORS \cup {"XX"}
AllUnits == {"ppb", "ppm", "ug/m3", "mg/m3", "zz"}
RawValues == { Num(v) : v \in (-1)..MaxRawValue } \cup {None, NaN, Str("abc")}

\* Raw records: well-formed ones over two pollutants (one outside the conversion
\* table) and three units, and a well-formed record with one field changed, malformed
\* or unusual (among them a record one degree further north).
WellFormedRecords ==
    [timestamp : {Iso(12)}, lat : {Num(340)}, lon : {Num(-1180)},
     pollutant_type : {"NO2", "XX"}, value : {Num(1)}, unit : {Absent, "ppb", "zz"}]
BaseRecord ==
    [timestamp |-> Iso(12), lat |-> Num(340), lon |-> Num(-1180),
     pollutant_type |-> "NO2", value |-> Num(1), unit |-> "ppb"]
VariantRecords ==
    { [BaseRecord EXCEPT !.lat = x] : x \in {None, Str("abc"), Num(350)} } \cup
    { [BaseRecord EXCEPT !.lon = x] : x \in {None} } \cup
    { [BaseRecord EXCEPT !.value = x] : x \in {Num(2), None, Str("abc")} } \cup
    { [BaseRecord EXCEPT !.timestamp = x] :
        x \in {[fmt |-> "text", t |-> 12], [fmt |-> "garbage", t |-> 0],
               [fmt |-> "missing", t |-> 0]} }
RawRecords == WellFormedRecords \cup VariantRecords

\* Weather samples at 0, 0.3 and 0.6 degree from the records' position.
WeatherSamples ==
    { [lat |-> 340, lon |-> -1180, temperature |-> 10],
      [lat |-> 343, lon |-> -1180, temperature |-> 13],
      [lat |-> 346, lon |-> -1180, temperature |-> 16] }

SeqsUpTo(S, n) == UNION { [1..k -> S] : k \in 0..n }

\* The clock readings of one call: one per raw record, never running backwards.
ClockReadings(n) ==
    { nows \in [1..n -> {20, 21}] : \A i \in 1..n, j \in 1..n : i <= j => nows[i] <= nows[j] }

NormalizeCalls ==
    [op : {"_normalize_value"}, value : RawValues, pollutant : AllPollutants,
     unit : AllUnits]
\* At most MaxBatch raw records in all, satellite and ground together.
HarmonizeCalls ==
    UNION { [op : {"harmonize_all_data"},
             tempo_data : [1..a -> RawRecords],
             ground_data : SeqsUpTo(RawRecords, MaxBatch - a),
             weather_data : SeqsUpTo(WeatherSamples, MaxWeather)] : a \in 0..MaxBatch }

InitHarmonizer ==
    /\ call \in NormalizeCalls \cup HarmonizeCalls
    /\ ret = NoRet
    /\ EngineInit
    /\ SchedulerInit
    /\ NasaInit

NormalizeValue ==
    /\ call.op = "_normalize_value"
    /\ ret = NoRet
    /\ ret' = _normalize_value(call.value, call.pollutant, call.unit)
    /\ UNCHANGED <<call, engine, scheduler, nasa>>

HarmonizeAllData ==
    /\ call.op = "harmonize_all_data"
    /\ ret = NoRet
    /\ ret' \in { Return(harmonize_all_data(call.tempo_data, call.ground_data,
                                            call.weather_data, nows)) :
                     nows \in ClockReadings(Len(call.tempo_data) + Len(call.ground_data)) }
    /\ UNCHANGED <<call, engine, scheduler, nasa>>

NextHarmonizer == NormalizeValue \/ HarmonizeAllData

SpecHarmonizer == InitHarmonizer /\ [][NextHarmonizer]_vars

(***************************************************************************)
(* DataValidator                                                           *)
(*                                                                         *)
(* A record's (lat, lon) is one of four named points; the haversine        *)
(* distance between two of them is tabulated in metres (R = 6371 km).      *)
(* Timestamps are counted in minutes, values are integers; means, ratios   *)
(* and squared deviations are exact rationals [num, den].                  *)
(***************************************************************************)

\* A (34.05,-118.25), B (34.06,-118.26), C (34.13,-118.25), D (34.15,-118.25).
Points == {"A", "B", "C", "D"}
_haversine_distance(p, q) ==
    LET d == ("A" :> ("A" :> 0 @@ "B" :> 1444 @@ "C" :> 8896 @@ "D" :> 11119)) @@
             ("B" :> ("A" :> 1444 @@ "B" :> 0 @@ "C" :> 7838 @@ "D" :> 10050)) @@
             ("C" :> ("A" :> 8896 @@ "B" :> 7838 @@ "C" :> 0 @@ "D" :> 2224)) @@
             ("D" :> ("A" :> 11119 @@ "B" :> 10050 @@ "C" :> 2224 @@ "D" :> 0))
    IN  d[p][q]

RECURSIVE SumSeq(_)
SumSeq(xs) == IF xs = <<>> THEN 0 ELSE Head(xs) + SumSeq(Tail(xs))

Rat(num, den) == [num |-> num, den |-> den]

\* _find_matching_ground_measurements: the ground rows of the same pollutant, within
\* max_distance (metres) and within max_time_diff (minutes), both inclusive.
_find_matching_ground_measurements(tempo_record, ground_df, max_distance, max_time_diff) ==
    SelectSeq(ground_df, LAMBDA g :
        /\ g.pollutant_type = tempo_record.pollutant_type
        /\ _haversine_distance(tempo_record.point, g.point) <= max_distance
        /\ Abs(g.timestamp - tempo_record.timestamp) <= max_time_diff)

\* high_discrepancy with >= where the code has >.
HighDiscrepancy_Inclusive(relative_diff, discrepancy_threshold) ==
    100 * relative_diff.num >= discrepancy_threshold * relative_diff.den

\* relative_diff > self.discrepancy_threshold (the threshold in hundredths).
HighDiscrepancy(relative_diff, discrepancy_threshold) ==
    100 * relative_diff.num > discrepancy_threshold * relative_diff.den

ConfidenceLevel_HighFromSixTenths(confidence) ==
    IF 10 * confidence.num >= 6 * confidence.den THEN "high" ELSE "low"

\* The level thresholds 0.8 and 0.6 on confidence = num/den, den > 0.
ConfidenceLevel(confidence) ==
    IF 10 * confidence.num >= 8 * confidence.den THEN "high"
    ELSE IF 10 * confidence.num >= 6 * confidence.den THEN "medium"
    ELSE "low"

\* _calculate_validation_metrics; ground_matches is not empty.  With n matches of
\* sum S, ground_mean is S/n and |tempo_value - ground_mean| is |n*tempo_value - S|/n.
_calculate_validation_metrics(tempo_record, ground_matches, discrepancy_threshold) ==
    LET tempo_value == tempo_record.value
        n == Len(ground_matches)
        S == SumSeq([i \in 1..n |-> ground_matches[i].value])
        dev == Abs(n * tempo_value - S)
        relative_diff == IF S > 0 THEN Rat(dev, S) ELSE Rat(0, 1)
        confidence == IF relative_diff.num >= relative_diff.den
                      THEN Rat(0, 1)
                      ELSE Rat(relative_diff.den - relative_diff.num, relative_diff.den)
    IN  [timestamp |-> tempo_record.timestamp,
         point |-> tempo_record.point,
         pollutant_type |-> tempo_record.pollutant_type,
         tempo_value |-> tempo_value,
         ground_mean |-> Rat(S, n),
         ground_std2 |-> Rat(SumSeq([i \in 1..n |->
                                 (n * ground_matches[i].value - S)
                                 * (n * ground_matches[i].value - S)]), n * n * n),
         ground_count |-> n,
         relative_diff |-> relative_diff,
         absolute_diff |-> Rat(dev, n),
         high_discrepancy |-> HighDiscrepancy(relative_diff, discrepancy_threshold),
         confidence |-> confidence,
         confidence_level |-> ConfidenceLevel(confidence),
         validation_status |-> "validated"]

\* `if matches:` asks a pandas DataFrame for its truth value, which pandas refuses for
\* every DataFrame, empty or not: ValueError.
DataFrameTruth(df) == Raise("ValueError")

\* The loop of validate_against_ground from row i on, `results` collected so far;
\* `threshold` is self.discrepancy_threshold.
RECURSIVE ValidateFrom(_, _, _, _, _, _, _)
ValidateFrom(i, results, tempo_df, ground_df, max_distance, max_time_diff, threshold) ==
    IF i > Len(tempo_df)
    THEN Return(results)
    ELSE LET matches == _find_matching_ground_measurements(
                            tempo_df[i], ground_df, max_distance, max_time_diff)
             truth == DataFrameTruth(matches)
         IN  IF truth.kind = "raise"
             THEN truth
             ELSE ValidateFrom(
                      i + 1,
                      IF truth.value
                      THEN Append(results, _calculate_validation_metrics(
                                               tempo_df[i], matches, threshold))
                      ELSE results,
                      tempo_df, ground_df, max_distance, max_time_diff, threshold)

validate_against_ground(tempo_data, ground_data, max_distance, max_time_diff, threshold) ==
    IF tempo_data = <<>> \/ ground_data = <<>>
    THEN Return(<<>>)
    ELSE ValidateFrom(1, <<>>, tempo_data, ground_data, max_distance, max_time_diff,
                      threshold)

\* The rows of `data` that share row i's pollutant_type.
Partition(data, i) ==
    { j \in 1..Len(data) : data[j].pollutant_type = data[i].pollutant_type }

\* n*value - S summed in squares over the partition: n^2 times its sum of squared
\* deviations from the mean.
SquaredDeviations(data, part) ==
    LET n == Cardinality(part)
        idx == CHOOSE f \in [1..n -> part] : \A a, b \in 1..n : a < b => f[a] < f[b]
        S == SumSeq([k \in 1..n |-> data[idx[k]].value])
    IN  SumSeq([k \in 1..n |-> (n * data[idx[k]].value - S) * (n * data[idx[k]].value - S)])

PartitionSum(data, part) ==
    LET n == Cardinality(part)
        idx == CHOOSE f \in [1..n -> part] : \A a, b \in 1..n : a < b => f[a] < f[b]
    IN  SumSeq([k \in 1..n |-> data[idx[k]].value])

\* flag_anomalies; z_threshold in tenths.  values.std() is the pandas Series std (the
\* sample std, n-1 in the denominator): z^2 = (n*v - S)^2 * (n-1) / SquaredDeviations.
\* The columns z_score and is_anomaly exist only once a partition of more than 2 rows
\* has been written; df["is_anomaly"] on a frame without the column is a KeyError.
flag_anomalies(data, z_threshold) ==
    IF data = <<>>
    THEN Return(data)
    ELSE IF \A i \in 1..Len(data) : Cardinality(Partition(data, i)) <= 2
    THEN Raise("KeyError")
    ELSE Return([i \in 1..Len(data) |->
            LET part == Partition(data, i)
                n == Cardinality(part)
                ss == SquaredDeviations(data, part)
                dev == n * data[i].value - PartitionSum(data, part)
                scored == n > 2 /\ ss > 0
            IN  [pollutant_type |-> data[i].pollutant_type,
                 value |-> data[i].value,
                 z_score2 |-> IF scored THEN Rat(dev * dev * (n - 1), ss) ELSE Rat(0, 1),
                 is_anomaly |-> scored /\ 100 * dev * dev * (n - 1)
                                            > z_threshold * z_threshold * ss]])

\* The sum and the mean of a sequence of rationals (not reduced).
RECURSIVE RatSum(_)
RatSum(rs) ==
    IF rs = <<>> THEN Rat(0, 1)
    ELSE LET rest == RatSum(Tail(rs))
         IN  Rat(Head(rs).num * rest.den + rest.num * Head(rs).den, Head(rs).den * rest.den)
RatMean(rs) == Rat(RatSum(rs).num, RatSum(rs).den * Len(rs))

\* The report of a non-empty list of validation results: counts, means, the breakdown
\* by pollutant and the two percentages.
QualityReport(df) ==
    LET total == Len(df)
        high == Len(SelectSeq(df, LAMBDA r : r.confidence_level = "high"))
        discrepant == Len(SelectSeq(df, LAMBDA r : r.high_discrepancy))
        pollutants == { df[i].pollutant_type : i \in 1..total }
        group(p) == SelectSeq(df, LAMBDA r : r.pollutant_type = p)
        column(rows, c) == [i \in 1..Len(rows) |-> rows[i][c]]
    IN  [total_validations |-> total,
         high_confidence_count |-> high,
         medium_confidence_count |-> Len(SelectSeq(df, LAMBDA r : r.confidence_level = "medium")),
         low_confidence_count |-> Len(SelectSeq(df, LAMBDA r : r.confidence_level = "low")),
         high_discrepancy_count |-> discrepant,
         mean_confidence |-> RatMean(column(df, "confidence")),
         mean_relative_diff |-> RatMean(column(df, "relative_diff")),
         pollutant_breakdown |->
             [confidence |-> [p \in pollutants |-> RatMean(column(group(p), "confidence"))],
              relative_diff |->
                 [p \in pollutants |-> RatMean(column(group(p), "relative_diff"))],
              high_discrepancy |->
                 [p \in pollutants |->
                     Len(SelectSeq(group(p), LAMBDA r : r.high_discrepancy))]],
         high_confidence_pct |-> Rat(100 * high, total),
         high_discrepancy_pct |-> Rat(100 * discrepant, total)]

\* Without the test for an empty list: the empty DataFrame has no column to select.
generate_quality_report_NoEmptyCase(validation_results) ==
    IF validation_results = <<>> THEN Raise("KeyError")
    ELSE Return(QualityReport(validation_results))

\* generate_quality_report: the fixed report of an empty list, else the report proper.
generate_quality_report(validation_results) ==
    IF validation_results = <<>>
    THEN Return([total_validations |-> 0, message |-> "No validation data available"])
    ELSE Return(QualityReport(validation_results))

\* Bounds of the inputs examined.
MaxReportResults == 2
MaxTempoRecords == 2
MaxGroundRecords == 2
MaxMetricValue == 10
MaxMatches == 2
MaxAnomalyBatch == 4
MaxAnomalyValue == 3

\* Satellite rows at point A at 12:00; ground rows at 12:15, 13:00 and 13:01, at A, B
\* (1.4 km) and D (11.1 km).
ValidatorTempoRecords ==
    [timestamp : {720}, point : {"A"}, pollutant_type : {"NO2", "O3"}, value : {25}]
ValidatorGroundRecords ==
    [timestamp : {735, 780, 781}, point : {"A", "B", "D"},
     pollutant_type : {"NO2", "O3"}, value : {28}]

\* The values of the metrics: small ones around zero, and the 25.0 and 28.0 of the
\* module's own example.
MetricValues == ((-1)..MaxMetricValue) \cup {25, 28}

MetricRecord(v) ==
    [timestamp |-> 720, point |-> "A", pollutant_type |-> "NO2", value |-> v]

ValidateCalls ==
    [op : {"validate_against_ground"},
     tempo_data : SeqsUpTo(ValidatorTempoRecords, MaxTempoRecords),
     ground_data : SeqsUpTo(ValidatorGroundRecords, MaxGroundRecords),
     max_distance : {10000, 1444},
     max_time_diff : {60},
     discrepancy_threshold : {30}]
MetricsCalls ==
    [op : {"_calculate_validation_metrics"},
     tempo_value : MetricValues,
     ground_values : SeqsUpTo(MetricValues, MaxMatches) \ {<<>>},
     discrepancy_threshold : {30, 10}]
AnomalyCalls ==
    [op : {"flag_anomalies"},
     data : SeqsUpTo([pollutant_type : {"NO2", "O3"}, value : 0..MaxAnomalyValue],
                     MaxAnomalyBatch),
     z_threshold : {30, 10}]

\* Validation results of satellite values below, near and above a ground value of 28.
ReportResults ==
    { _calculate_validation_metrics(
          [timestamp |-> 720, point |-> "A", pollutant_type |-> p, value |-> v],
          <<[timestamp |-> 735, point |-> "A", pollutant_type |-> p, value |-> 28]>>, 30) :
        p \in {"NO2", "O3"}, v \in {14, 25, 40} }
ReportCalls ==
    [op : {"generate_quality_report"},
     validation_results : SeqsUpTo(ReportResults, MaxReportResults)]

InitValidator ==
    /\ call \in ValidateCalls \cup MetricsCalls \cup AnomalyCalls \cup ReportCalls
    /\ ret = NoRet
    /\ EngineInit
    /\ SchedulerInit
    /\ NasaInit

ValidateAgainstGround ==
    /\ call.op = "validate_against_ground"
    /\ ret = NoRet
    /\ ret' = validate_against_ground(call.tempo_data, call.ground_data,
                                      call.max_distance, call.max_time_diff,
                                      call.discrepancy_threshold)
    /\ UNCHANGED <<call, engine, scheduler, nasa>>

CalculateValidationMetrics ==
    /\ call.op = "_calculate_validation_metrics"
    /\ ret = NoRet
    /\ ret' = Return(_calculate_validation_metrics(
                         MetricRecord(call.tempo_value),
                         [i \in 1..Len(call.ground_values) |->
                             MetricRecord(call.ground_values[i])],
                         call.discrepancy_threshold))
    /\ UNCHANGED <<call, engine, scheduler, nasa>>

FlagAnomalies ==
    /\ call.op = "flag_anomalies"
    /\ ret = NoRet
    /\ ret' = flag_anomalies(call.data, call.z_threshold)
    /\ UNCHANGED <<call, engine, scheduler, nasa>>

GenerateQualityReport ==
    /\ call.op = "generate_quality_report"
    /\ ret = NoRet
    /\ ret' = generate_quality_report(call.validation_results)
    /\ UNCHANGED <<call, engine, scheduler, nasa>>

NextValidator ==
    \/ ValidateAgainstGround
    \/ CalculateValidationMetrics
    \/ FlagAnomalies
    \/ GenerateQualityReport

SpecValidator == InitValidator /\ [][NextValidator]_vars

\* The batch operations of the harmonizer and of the validator together.
InitProcessing == InitHarmonizer \/ InitValidator
NextProcessing == NextHarmonizer \/ NextValidator
SpecProcessing == InitProcessing /\ [][NextProcessing]_vars


(***************************************************************************)
(* ForecastingEngine                                                       *)
(*                                                                         *)
(* A DataFrame holding one series is its ordered column list and one       *)
(* timestamp (in hours) per row; every cell of the input is a value, none  *)
(* is missing.  A trained regressor is opaque: it is known by the          *)
(* pollutant it was fit for, its model type and the feature names it was   *)
(* fit on.                                                                 *)
(***************************************************************************)

Contains(seq, x) == \E i \in 1..Len(seq) : seq[i] = x

Put_KeepExisting(d, k, v) == [x \in DOMAIN d \cup {k} |-> IF x \in DOMAIN d THEN d[x] ELSE v]

\* d[k] = v on a dict.
Put(d, k, v) == [x \in DOMAIN d \cup {k} |-> IF x = k THEN v ELSE d[x]]

\* df[col] = ... for each col of `added`: an existing column keeps its place, a new
\* one goes to the end.
AddColumns(columns, added) == columns \o SelectSeq(added, LAMBDA c : ~Contains(columns, c))

RECURSIVE sort_values(_)
\* df.sort_values('timestamp'), on the timestamp column.
sort_values(timestamp) ==
    IF timestamp = <<>> THEN <<>>
    ELSE LET i == CHOOSE k \in 1..Len(timestamp) :
                      \A j \in 1..Len(timestamp) :
                          timestamp[k] < timestamp[j] \/ (timestamp[k] = timestamp[j] /\ k <= j)
         IN  <<timestamp[i]>> \o
             sort_values([j \in 1..(Len(timestamp) - 1) |->
                             IF j < i THEN timestamp[j] ELSE timestamp[j + 1]])

time_features ==
    <<"hour", "day_of_week", "month", "day_of_year", "hour_sin", "hour_cos",
      "day_sin", "day_cos", "month_sin", "month_cos">>

lag_features == <<"lag_1", "lag_2", "lag_3", "lag_6", "lag_12", "lag_24">>

rolling_features ==
    <<"rolling_mean_3", "rolling_mean_6", "rolling_mean_12", "rolling_mean_24",
      "rolling_std_3", "rolling_std_12">>

\* The longest of the lags whose NaN drops a row: dropna(subset=[lag_1, lag_2, lag_3]).
WarmUp == 3

\* The rows shift(1..3) leaves without a NaN lag: all but the first three.
DropWarmUp(timestamp) ==
    IF Len(timestamp) <= WarmUp THEN <<>> ELSE SubSeq(timestamp, WarmUp + 1, Len(timestamp))

\* prepare_features: the engineered frame, or the KeyError of a frame without a
\* 'timestamp' column (line 27) or without a 'value' column (no lag column to drop on).
prepare_features(df) ==
    IF ~Contains(df.columns, "timestamp") THEN Raise("KeyError")
    ELSE IF ~Contains(df.columns, "value") THEN Raise("KeyError")
    ELSE Return([columns |-> AddColumns(df.columns,
                                        time_features \o lag_features \o rolling_features),
                 timestamp |-> DropWarmUp(sort_values(df.timestamp))])

exclude_cols == <<"timestamp", "value", "pollutant_type", "source", "city", "location">>

KnownModelTypes == {"xgboost"}

\* train_test_split(X, y, test_size=0.2, shuffle=False) on n_samples rows: the sizes
\* of the two parts; an empty training part raises ValueError.
n_train(n_samples) == (8 * n_samples) \div 10
n_test(n_samples) == (2 * n_samples + 9) \div 10

\* The metrics dict of train_model; its four scores are known here only by the sizes
\* of the parts they were computed on.
metrics(train_rows, test_rows) == [fit_on |-> train_rows, scored_on |-> test_rows]

\* The rows of X_train: the first n_train rows of the engineered frame.
X_train(timestamp) == SubSeq(timestamp, 1, n_train(Len(timestamp)))

\* The regressor model.fit returns.
FittedModel(pollutant, model_type, feature_names, fit_on) ==
    [fit_for |-> pollutant, model_type |-> model_type, feature_names |-> feature_names,
     fit_on |-> fit_on]

\* An insertion-ordered dict with string keys and values of any kind: its keys in
\* insertion order, and the value of each key.
Keys(d) == d.order
HasKey(d, k) == k \in DOMAIN d.item
GetItem(d, k) == d.item[k]

\* d[k] = v: an existing key keeps its place, a new one goes to the end.
SetItem(d, k, v) ==
    IF HasKey(d, k)
    THEN [d EXCEPT !.item[k] = v]
    ELSE [order |-> Append(d.order, k), item |-> Put(d.item, k, v)]

\* The value the series has at a timestamp of the input.
Observed(at) == [t |-> "observed", at |-> at]

\* Timestamps count hours from a midnight: timestamp.hour, and the two cyclical
\* encodings np.sin(2 * np.pi * hour / 24) and np.cos(2 * np.pi * hour / 24), kept
\* as terms in the hour.
HourOf(timestamp) == timestamp % 24
hour_sin(hour) == [t |-> "sin(2*pi*hour/24)", hour |-> hour]
hour_cos(hour) == [t |-> "cos(2*pi*hour/24)", hour |-> hour]

\* The offsets of the lag columns, and the column of an offset.
lags == <<1, 2, 3, 6, 12, 24>>

\* f'lag_{lag}' for lag = 1..24, the names the shift of the lag window asks for.
lag_names ==
    <<"lag_1", "lag_2", "lag_3", "lag_4", "lag_5", "lag_6", "lag_7", "lag_8",
      "lag_9", "lag_10", "lag_11", "lag_12", "lag_13", "lag_14", "lag_15", "lag_16",
      "lag_17", "lag_18", "lag_19", "lag_20", "lag_21", "lag_22", "lag_23", "lag_24">>
LagName(lag) == lag_names[lag]

\* The cell of a column in the i-th row of the sorted frame: the time features of the
\* row's timestamp, value.shift(lag) for a lag column (NaN in the first `lag` rows),
\* the series value, and for every other column a cell known by column and row.
Cell(col, timestamp, i) ==
    CASE col = "hour" -> Num(HourOf(timestamp[i]))
      [] col = "hour_sin" -> hour_sin(HourOf(timestamp[i]))
      [] col = "hour_cos" -> hour_cos(HourOf(timestamp[i]))
      [] col = "value" -> Observed(timestamp[i])
      [] Contains(lag_features, col) ->
            LET lag == lags[CHOOSE j \in 1..Len(lags) : lag_features[j] = col]
            IN  IF i - lag >= 1 THEN Observed(timestamp[i - lag]) ELSE NaN
      [] OTHER -> [t |-> "cell", column |-> col, at |-> timestamp[i]]

RECURSIVE RowItems(_, _, _)
\* The cells of the last row of the sorted frame in the columns from the j-th on.
RowItems(columns, timestamp, j) ==
    IF j > Len(columns) THEN EmptyDict
    ELSE (columns[j] :> Cell(columns[j], timestamp, Len(timestamp)))
             @@ RowItems(columns, timestamp, j + 1)

\* df_features.iloc[-1][columns].to_dict() for the frame prepare_features made of df:
\* the last row of the sorted frame, which dropna leaves in place.
last_row(df, columns) ==
    [order |-> columns, item |-> RowItems(columns, sort_values(df.timestamp), 1)]

RECURSIVE LastRowsOver(_)
\* The explicit table of last_row over a set of pairs of a frame and a column list.
LastRowsOver(S) ==
    IF S = {} THEN EmptyDict
    ELSE LET c == CHOOSE x \in S : TRUE
         IN  (c :> last_row(c[1], c[2])) @@ LastRowsOver(S \ {c})

\* Line 26, df = df.copy(): the caller's frame after prepare_features has worked on
\* its own copy.
CallerFrame_InPlace(df, df_features) ==
    IF df_features.kind = "raise" THEN df ELSE df_features.value

CallerFrame(df, df_features) == df

\* model.predict(X_pred) of an XGBRegressor: it checks the frame's column names, in
\* order, against the names it was fit on and raises ValueError when they differ.
model_predict(model, X_pred_columns, hour) ==
    IF X_pred_columns # model.feature_names THEN Raise("ValueError")
    ELSE Return([by |-> model, step |-> hour])

\* Lines 191-193: the hour features of forecast_time.
UpdateHour(current_features, forecast_time) ==
    SetItem(SetItem(SetItem(current_features, "hour", Num(HourOf(forecast_time))),
                    "hour_sin", hour_sin(HourOf(forecast_time))),
            "hour_cos", hour_cos(HourOf(forecast_time)))

RECURSIVE ShiftLags(_, _)
\* Lines 197-199, the loop from `lag` down to 2: lag_k takes lag_{k-1} where both are
\* keys of the dict.
ShiftLags(current_features, lag) ==
    IF lag < 2 THEN current_features
    ELSE ShiftLags(IF HasKey(current_features, lag_names[lag])
                      /\ HasKey(current_features, lag_names[lag - 1])
                   THEN SetItem(current_features, lag_names[lag],
                                GetItem(current_features, lag_names[lag - 1]))
                   ELSE current_features,
                   lag - 1)

\* Lines 196-200.
UpdateLags(current_features, prediction) ==
    IF HasKey(current_features, "lag_1")
    THEN SetItem(ShiftLags(current_features, 24), "lag_1", prediction)
    ELSE current_features

RECURSIVE ForecastsFrom(_, _, _, _, _, _, _)
\* The loop of predict from `hour` on, `forecasts` collected so far, each with the
\* feature row its prediction was made from.
ForecastsFrom(hour, forecasts, model, current_features, last_timestamp, pollutant, hours) ==
    IF hour > hours THEN Return(forecasts)
    ELSE LET prediction == model_predict(model, Keys(current_features), hour)
             forecast_time == last_timestamp + hour
         IN  IF prediction.kind = "raise" THEN prediction
             ELSE ForecastsFrom(hour + 1,
                                Append(forecasts,
                                       [forecast |->
                                           [timestamp |-> Iso(forecast_time),
                                            pollutant_type |-> pollutant,
                                            predicted_value |-> prediction.value,
                                            forecast_hour |-> hour,
                                            confidence |-> "medium"],
                                        X_pred |-> current_features.item]),
                                model,
                                UpdateLags(UpdateHour(current_features, forecast_time),
                                           prediction.value),
                                last_timestamp, pollutant, hours)

\* Bounds of the engine's inputs.
MaxRows == 5
MaxHours == 2

Pollutants == {"NO2", "O3"}
ModelTypes == KnownModelTypes \cup {"svm"}

\* Column layouts of the input frames: the plain one, one with lat and lon in the other
\* order, one with a weather column.
RawLayouts ==
    { <<"timestamp", "value", "pollutant_type", "lat", "lon">>,
      <<"timestamp", "value", "pollutant_type", "lon", "lat">>,
      <<"timestamp", "value", "pollutant_type", "lat", "lon", "temperature">> }

\* Hourly series handed over newest first: one of WarmUp rows, too short to leave a
\* feature row, and one of MaxRows rows.
Series == { [i \in 1..n |-> n + 1 - i] : n \in {WarmUp, MaxRows} }

Frames == [columns : RawLayouts, timestamp : Series]

\* The feature list of line 83 for an outcome of prepare_features.
FeatureList(df_features) ==
    IF df_features.kind = "raise" THEN <<>>
    ELSE SelectSeq(df_features.value.columns, LAMBDA col : ~Contains(exclude_cols, col))

RECURSIVE PreparedOver(_)
\* The explicit table of prepare_features over a set of frames.
PreparedOver(S) ==
    IF S = {} THEN EmptyDict
    ELSE LET df == CHOOSE x \in S : TRUE
         IN  (df :> prepare_features(df)) @@ PreparedOver(S \ {df})

RECURSIVE FeatureListsOver(_)
\* The explicit table of the feature lists over a set of frames.
FeatureListsOver(S) ==
    IF S = {} THEN EmptyDict
    ELSE LET df == CHOOSE x \in S : TRUE
         IN  (df :> FeatureList(prepare_features(df))) @@ FeatureListsOver(S \ {df})

\* prepare_features and the feature list of line 83, tabulated over the frames.
PreparedFrames == PreparedOver(Frames)
FeatureLists == FeatureListsOver(Frames)

\* last_row, tabulated over the frames and the feature lists train_model can set.
LastRows == LastRowsOver(Frames \X { FeatureLists[df] : df \in Frames })

InitEngine ==
    /\ call = [op |-> "__init__"]
    /\ ret = Return(None)
    /\ EngineInit
    /\ SchedulerInit
    /\ NasaInit

\* A new engine object over the same model directory (a restart of the process).
NewEngine ==
    /\ call' = [op |-> "__init__"]
    /\ ret' = Return(None)
    /\ models' = EmptyDict
    /\ feature_columns' = <<>>
    /\ selected_columns' = NotSelected
    /\ X_pred' = <<>>
    /\ UNCHANGED <<model_dir, scheduler, nasa>>

TrainModel ==
    /\ UNCHANGED <<scheduler, nasa>>
    /\ \E df \in Frames, pollutant \in Pollutants, model_type \in ModelTypes :
        LET df_features == PreparedFrames[df]
            columns == FeatureLists[df]
            n_samples == Len(df_features.value.timestamp)
            model == FittedModel(pollutant, model_type, columns,
                                 X_train(df_features.value.timestamp))
        IN  /\ call' = [op |-> "train_model", df |-> df, pollutant |-> pollutant,
                        model_type |-> model_type]
            /\ selected_columns' = NotSelected
            /\ X_pred' = <<>>
            /\ IF df_features.kind = "raise"
               THEN /\ ret' = df_features
                    /\ UNCHANGED <<models, feature_columns, model_dir>>
               ELSE /\ feature_columns' = columns
                    /\ IF n_samples = 0 \/ n_train(n_samples) = 0
                          \/ model_type \notin KnownModelTypes
                       THEN /\ ret' = Raise("ValueError")
                            /\ UNCHANGED <<models, model_dir>>
                       ELSE /\ models' = Put(models, pollutant, model)
                            /\ model_dir' = Put(model_dir, <<pollutant, model_type>>,
                                                [model |-> model, features |-> columns])
                            /\ ret' = Return(metrics(n_train(n_samples), n_test(n_samples)))

LoadModel ==
    /\ UNCHANGED <<scheduler, nasa>>
    /\ \E pollutant \in Pollutants, model_type \in ModelTypes :
        /\ call' = [op |-> "load_model", pollutant |-> pollutant, model_type |-> model_type]
        /\ selected_columns' = NotSelected
        /\ X_pred' = <<>>
        /\ IF <<pollutant, model_type>> \in DOMAIN model_dir
           THEN LET data == model_dir[<<pollutant, model_type>>]
                IN  /\ models' = Put(models, pollutant, data.model)
                    /\ feature_columns' = data.features
                    /\ ret' = Return(TRUE)
                    /\ UNCHANGED model_dir
           ELSE /\ ret' = Return(FALSE)
                /\ UNCHANGED <<models, feature_columns, model_dir>>

registered_Always(pollutant, registry) == TRUE

\* pollutant in self.models.
registered(pollutant, registry) == pollutant \in DOMAIN registry

Predict ==
    /\ UNCHANGED <<scheduler, nasa>>
    /\ \E df \in Frames, pollutant \in Pollutants, hours \in 0..MaxHours :
        LET df_features == PreparedFrames[df]
            rows == df_features.value.timestamp
            loop == ForecastsFrom(1, <<>>, models[pollutant],
                                  LastRows[<<df, feature_columns>>],
                                  rows[Len(rows)], pollutant, hours)
        IN  /\ call' = [op |-> "predict", df |-> df, pollutant |-> pollutant,
                        hours |-> hours, df_after |-> CallerFrame(df, df_features)]
            /\ UNCHANGED <<models, feature_columns, model_dir>>
            /\ IF ~registered(pollutant, models)
               THEN ret' = Return(<<>>) /\ selected_columns' = NotSelected /\ X_pred' = <<>>
               ELSE IF df_features.kind = "raise"
               THEN ret' = df_features /\ selected_columns' = NotSelected /\ X_pred' = <<>>
               ELSE IF rows = <<>>
               THEN /\ ret' = Raise("IndexError")
                    /\ selected_columns' = NotSelected
                    /\ X_pred' = <<>>
               ELSE /\ selected_columns' = feature_columns
                    /\ IF \E i \in 1..Len(feature_columns) :
                             ~Contains(df_features.value.columns, feature_columns[i])
                       THEN ret' = Raise("KeyError") /\ X_pred' = <<>>
                       ELSE IF loop.kind = "raise"
                       THEN ret' = loop /\ X_pred' = <<>>
                       ELSE /\ ret' = Return([h \in 1..Len(loop.value) |->
                                                 loop.value[h].forecast])
                            /\ X_pred' = [h \in 1..Len(loop.value) |->
                                             loop.value[h].X_pred]

NextEngine == NewEngine \/ TrainModel \/ LoadModel \/ Predict

SpecEngine == InitEngine /\ [][NextEngine]_vars

(***************************************************************************)
(* DataScheduler: the periodic jobs that process data and drive the engine *)
(*                                                                         *)
(* The jobs are coroutines on one asyncio event loop: the code between two *)
(* awaits runs without interruption, and at an await any other job may     *)
(* run.  An instance of a job is known by the await it is suspended at.    *)
(* Every job is added without max_instances, so the scheduler starts a     *)
(* run of a job only while fewer than its default of one are in progress.  *)
(***************************************************************************)

\* The number of concurrently running instances add_job allows a job by default.
max_instances == 1

MayLaunch_Always(job, instances) == TRUE

\* Whether the scheduler starts a due run of the job, or skips it.
MayLaunch(job, instances) == Len(instances) < max_instances

\* The sequence without its i-th element.
Remove(seq, i) == [j \in 1..(Len(seq) - 1) |-> IF j < i THEN seq[j] ELSE seq[j + 1]]

\* The instance of a job up to its first await.
Launched(job) ==
    IF job = "harmonize_validate"
    THEN [pc |-> "raw_tempo.to_list", tempo_data |-> FALSE, ground_data |-> FALSE,
          harmonized |-> FALSE, stages |-> <<>>]
    ELSE [pc |-> "harmonized_data.to_list"]

\* prepare_features handed the list of documents to_list returned: a list has a
\* copy() but takes no string index, so line 27 raises TypeError.
prepare_features_of_list == Raise("TypeError")

\* The pollutants generate_forecasts and retrain_models loop over.
pollutants == <<"PM2.5", "PM10", "O3", "NO2">>

\* The model directories the scheduler's engine can be constructed over: an empty one,
\* and one that scripts/train_models_manual.py has left an artifact in.
ModelDirectories ==
    { EmptyDict } \cup
    { Put(EmptyDict, <<pollutant, "xgboost">>,
          [model |-> FittedModel(pollutant, "xgboost", FeatureLists[df],
                                 X_train(PreparedFrames[df].value.timestamp)),
           features |-> FeatureLists[df]]) :
        pollutant \in Pollutants,
        df \in { f \in Frames : f.columns = <<"timestamp", "value", "pollutant_type",
                                              "lat", "lon">>
                                /\ Len(f.timestamp) = MaxRows } }

\* An interval trigger of a job fires.
Trigger ==
    /\ \E job \in JobIds :
          IF MayLaunch(job, running[job])
          THEN /\ running' = [running EXCEPT ![job] = Append(@, Launched(job))]
               /\ UNCHANGED refused
          ELSE /\ refused' = refused \cup {job}
               /\ UNCHANGED running
    /\ UNCHANGED <<call, ret, engine, nasa, log, db>>

\* retrain_models resumes with the documents of harmonized_data: fewer than 1000 is a
\* warning and a return; else prepare_features raises on the list and the outer
\* except logs it, so the loop over the pollutants (lines 328-348) is never entered.
RetrainModels ==
    /\ \E i \in 1..Len(running["retrain_models"]), enough \in BOOLEAN :
          /\ enough => db.harmonized_data
          /\ running' = [running EXCEPT !["retrain_models"] = Remove(@, i)]
          /\ log' = log \cup
                { IF ~enough THEN "Insufficient data for model training"
                  ELSE "Error retraining models: " \o prepare_features_of_list.exc }
          /\ call' = [op |-> "retrain_models", enough |-> enough]
          /\ ret' = Return(None)
    /\ UNCHANGED <<engine, nasa, refused, db>>

\* generate_forecasts resumes with the documents of harmonized_data: none is a warning
\* and a return; else prepare_features raises on the list and the outer except logs
\* it, so the loop over the pollutants and the insert into forecasts (lines 282-306)
\* are never entered.
GenerateForecasts ==
    /\ \E i \in 1..Len(running["generate_forecasts"]) :
          LET recent_data == db.harmonized_data
          IN  /\ running' = [running EXCEPT !["generate_forecasts"] = Remove(@, i)]
              /\ log' = log \cup
                    { IF ~recent_data THEN "No data available for forecasting"
                      ELSE "Error generating forecasts: " \o prepare_features_of_list.exc }
              /\ call' = [op |-> "generate_forecasts", recent_data |-> recent_data]
              /\ ret' = Return(None)
    /\ UNCHANGED <<engine, nasa, refused, db>>

\* harmonize_and_validate resumes at one of its awaits; tempo_data and ground_data
\* record whether the lists read are non-empty, harmonized whether the harmonizer kept
\* a record, stages the processing stages called so far.  An insert_many has taken
\* effect when the job resumes from it.
HarmonizeAndValidate ==
    /\ \E i \in 1..Len(running["harmonize_validate"]) :
          LET self == running["harmonize_validate"][i]
              goto(next) ==
                  /\ running' = [running EXCEPT !["harmonize_validate"][i] = next]
                  /\ UNCHANGED <<call, ret>>
              done(last) ==
                  /\ running' = [running EXCEPT !["harmonize_validate"] = Remove(@, i)]
                  /\ call' = [op |-> "harmonize_and_validate",
                              tempo_data |-> last.tempo_data,
                              ground_data |-> last.ground_data,
                              harmonized |-> last.harmonized,
                              stages |-> last.stages]
                  /\ ret' = Return(None)
          IN  CASE self.pc = "raw_tempo.to_list" ->
                     /\ \E some \in BOOLEAN :
                           goto([self EXCEPT !.pc = "raw_ground.to_list", !.tempo_data = some])
                     /\ UNCHANGED <<log, db>>
                [] self.pc = "raw_ground.to_list" ->
                     /\ \E some \in BOOLEAN :
                           goto([self EXCEPT !.pc = "raw_weather.to_list", !.ground_data = some])
                     /\ UNCHANGED <<log, db>>
                [] self.pc = "raw_weather.to_list" ->
                     \* harmonize_all_data; harmonized is non-empty only if a record
                     \* was read and kept
                     /\ \E harmonized \in BOOLEAN :
                           LET next == [self EXCEPT !.harmonized = harmonized,
                                                    !.stages = Append(@, "harmonize")]
                           IN  /\ harmonized => (self.tempo_data \/ self.ground_data)
                               /\ IF harmonized
                                  THEN goto([next EXCEPT !.pc = "harmonized_data.insert_many"])
                                  ELSE done(next)
                     /\ UNCHANGED <<log, db>>
                [] self.pc = "harmonized_data.insert_many" ->
                     \* validate_against_ground raises on `if matches:`, and the
                     \* outer except logs it
                     /\ db' = [db EXCEPT !.harmonized_data = TRUE]
                     /\ IF self.tempo_data /\ self.ground_data
                        THEN LET next == [self EXCEPT !.stages = Append(@, "validate")]
                                 validation_results == DataFrameTruth(<<>>)
                             IN  IF validation_results.kind = "raise"
                                 THEN /\ done(next)
                                      /\ log' = log \cup
                                            { "Error in harmonization and validation: " \o
                                              validation_results.exc }
                                 ELSE /\ goto([next EXCEPT
                                                  !.pc = "validation_results.insert_many"])
                                      /\ UNCHANGED log
                        ELSE /\ done(self)
                             /\ UNCHANGED log
                [] self.pc = "validation_results.insert_many" ->
                     /\ db' = [db EXCEPT !.validation_results = TRUE]
                     /\ done(self)
                     /\ UNCHANGED log
    /\ UNCHANGED <<engine, nasa, refused>>

\* DataScheduler.__init__ and start(): a new engine over one of the model
\* directories, no job running yet.
InitScheduler ==
    /\ call = [op |-> "start"]
    /\ ret = Return(None)
    /\ models = EmptyDict
    /\ feature_columns = <<>>
    /\ model_dir \in ModelDirectories
    /\ selected_columns = NotSelected
    /\ X_pred = <<>>
    /\ SchedulerInit
    /\ NasaInit

NextScheduler == Trigger \/ RetrainModels \/ GenerateForecasts \/ HarmonizeAndValidate

SpecScheduler == InitScheduler /\ [][NextScheduler]_vars

(***************************************************************************)
(* NASAServicesIntegration: get_nasa_air_quality and its fallback          *)
(*                                                                         *)
(* Latitudes and longitudes are in 1/10000 degree.  The result of the      *)
(* fallback is kept in the fields aqi, location, source and locationInfo   *)
(* (nearest_city, base_aqi, type); the clock's hour, the value of          *)
(* random.randint(-10, 15) and the outcome of the bridged node call are    *)
(* inputs of the call.                                                     *)
(***************************************************************************)

\* The cities of _get_location_info, in list order.
cities ==
    << [name |-> "Los Angeles", lat |-> 340522, lon |-> -1182437, base_aqi |-> 95],
       [name |-> "New York", lat |-> 407128, lon |-> -740060, base_aqi |-> 85],
       [name |-> "Chicago", lat |-> 418781, lon |-> -876298, base_aqi |-> 78],
       [name |-> "Houston", lat |-> 297604, lon |-> -953698, base_aqi |-> 92],
       [name |-> "Phoenix", lat |-> 334484, lon |-> -1120740, base_aqi |-> 88],
       [name |-> "Beijing", lat |-> 399042, lon |-> 1164074, base_aqi |-> 155],
       [name |-> "Delhi", lat |-> 287041, lon |-> 771025, base_aqi |-> 168],
       [name |-> "London", lat |-> 515074, lon |-> -1278, base_aqi |-> 72] >>

\* A natural number too large for one machine integer: hi * 10^6 + lo, lo < 10^6.
Big(hi, lo) == [hi |-> hi + lo \div 1000000, lo |-> lo % 1000000]
BigLess(a, b) == a.hi < b.hi \/ (a.hi = b.hi /\ a.lo < b.lo)

\* d**2, with |d| = x * 1000 + y: x^2 * 10^6 + 2xy * 10^3 + y^2.
BigSquare(d) ==
    LET x == Abs(d) \div 1000
        y == Abs(d) % 1000
    IN  Big(x * x + (2 * x * y) \div 1000, ((2 * x * y) % 1000) * 1000 + y * y)

\* (lat - city["lat"])**2 + (lon - city["lon"])**2, the square of the key of min().
SquaredDegrees(lat, lon, city) ==
    LET a == BigSquare(lat - city.lat)
        b == BigSquare(lon - city.lon)
    IN  Big(a.hi + b.hi, a.lo + b.lo)

\* min(cities, key=...): the first city of the list at the least distance.
closest_city(lat, lon) ==
    cities[CHOOSE i \in 1..Len(cities) :
              \A j \in 1..Len(cities) :
                  \/ BigLess(SquaredDegrees(lat, lon, cities[i]),
                             SquaredDegrees(lat, lon, cities[j]))
                  \/ (SquaredDegrees(lat, lon, cities[i]) = SquaredDegrees(lat, lon, cities[j])
                        /\ i <= j)]

\* distance < 50 with distance = sqrt(squared degrees) * 111: the squared degrees are
\* below (50 / 111)^2 = 0.2029056083..., 20290560.83 in the unit used here.
Within50Km(lat, lon, city) ==
    BigLess(SquaredDegrees(lat, lon, city), Big(20, 290561))

\* _get_location_info: the urban record, or in the rural branch the NameError of
\* line 303, where `random` names nothing: the module does not import it and the
\* `import random` of the other methods is local to them.
_get_location_info(lat, lon) ==
    LET city == closest_city(lat, lon)
    IN  IF Within50Km(lat, lon, city)
        THEN Return([nearest_city |-> city.name, base_aqi |-> city.base_aqi,
                     type |-> "urban"])
        ELSE Raise("NameError")

\* The rush hours, the night, and the rest of the day.
time_variation(hour) ==
    IF (7 <= hour /\ hour <= 9) \/ (17 <= hour /\ hour <= 19) THEN 15
    ELSE IF 23 <= hour \/ hour <= 5 THEN -10
    ELSE 0

\* _get_enhanced_fallback_data, with the clock's hour and the random term of line 231.
_get_enhanced_fallback_data(lat, lon, hour, random_term) ==
    LET location_info == _get_location_info(lat, lon)
    IN  IF location_info.kind = "raise" THEN location_info
        ELSE Return([aqi |-> Max(15, Min(300, location_info.value.base_aqi
                                               + time_variation(hour) + random_term)),
                     location |-> [lat |-> lat, lon |-> lon],
                     source |-> "ENHANCED_SIMULATION_NASA_STRUCTURE",
                     locationInfo |-> location_info.value])

\* What the bridged node call can end in: exit code 0 with JSON on stdout, exit code 0
\* with other output (json.loads raises), another exit code, the 30 s timeout, and an
\* OSError while the bridge script is written or node is started.  Without the
\* services the bridge is "<not called>".
BridgeOutcomes == {"json", "not json", "exit code", "timeout", "oserror"}

\* get_nasa_air_quality: without the services, and from the else branch and the except
\* handler of the bridged call, the fallback.  An exception the fallback raises at line
\* 57 or in the handler is caught by nothing; one it raises in the else branch is
\* caught by the handler, which calls the fallback again for the same coordinates and
\* gets the same exception.
get_nasa_air_quality(available, lat, lon, bridge, hour, random_term) ==
    IF available /\ bridge = "json"
    THEN Return([source |-> "NASA TEMPO service"])
    ELSE _get_enhanced_fallback_data(lat, lon, hour, random_term)

\* Coordinates examined: New York (the module's own test call), Los Angeles and points
\* 0.30, 0.45 and 0.46 degrees north of it (33.3, 49.95 and 51.06 km), London, and
\* away from every listed city: two inland points and the two corners of the valid
\* range.
NasaCoordinates ==
    { <<407128, -740060>>, <<340522, -1182437>>, <<343522, -1182437>>,
      <<345022, -1182437>>, <<345122, -1182437>>, <<515074, -1278>>,
      <<0, 0>>, <<450000, -1000000>>, <<900000, 1800000>>, <<-900000, -1800000>> }

\* Hours of the clock examined: night, an ordinary morning hour, both rush hours, the
\* hours next to them, and the last hour of the day.
NasaHours == {0, 5, 6, 8, 12, 18, 20, 23}

\* Values of random.randint(-10, 15) examined: both ends and the middle.
RandomTerms == {-10, 0, 15}

\* NASAServicesIntegration(): the availability check finds node and the four service
\* files, or does not.
InitNasa ==
    /\ call = [op |-> "__init__"]
    /\ ret = Return(None)
    /\ services_available \in BOOLEAN
    /\ EngineInit
    /\ SchedulerInit

GetNasaAirQuality ==
    /\ \E c \in NasaCoordinates, hour \in NasaHours, random_term \in RandomTerms,
          outcome \in BridgeOutcomes :
          LET bridge == IF services_available THEN outcome ELSE "<not called>"
          IN  /\ call' = [op |-> "get_nasa_air_quality", lat |-> c[1], lon |-> c[2],
                          bridge |-> bridge]
              /\ ret' = get_nasa_air_quality(services_available, c[1], c[2], bridge,
                                             hour, random_term)
    /\ UNCHANGED <<engine, scheduler, nasa>>

NextNasa == GetNasaAirQuality

SpecNasa == InitNasa /\ [][NextNasa]_vars

(***************************************************************************)
(* Claims about calculate_aqi, checked under SpecAqi.                      *)
(***************************************************************************)

AqiReturned == call.op = "calculate_aqi" /\ ret.kind = "return"

\* The call's concentration lies inside one of its pollutant's breakpoint ranges.
InBreakpointRange ==
    /\ call.pollutant \in DOMAIN breakpoints
    /\ \E i \in 1..Len(breakpoints[call.pollutant]) :
          /\ 2 * breakpoints[call.pollutant][i][1] <= call.concentration
          /\ call.concentration <= 2 * breakpoints[call.pollutant][i][2]

\* The six fixed bands of the index.
BandOf(aqi) ==
    IF aqi <= 50 THEN "Good"
    ELSE IF aqi <= 100 THEN "Moderate"
    ELSE IF aqi <= 150 THEN "Unhealthy for Sensitive Groups"
    ELSE IF aqi <= 200 THEN "Unhealthy"
    ELSE IF aqi <= 300 THEN "Very Unhealthy"
    ELSE "Hazardous"

\* C1: for a concentration inside a breakpoint range the returned category is the
\* band of the returned index (Good <= 50, Moderate <= 100, Unhealthy for Sensitive
\* Groups <= 150, Unhealthy <= 200, Very Unhealthy <= 300, Hazardous above), and
\* PM2.5 at 12.0 gives {50, Good}, PM2.5 at 35.4 gives {100, Moderate}.
C1_CategoryIsBandOfIndex ==
    (AqiReturned /\ InBreakpointRange) =>
        /\ ret.value.category = BandOf(ret.value.aqi)
        /\ (call.pollutant = "PM2.5" /\ call.concentration = 240) =>
              ret.value = [aqi |-> 50, category |-> "Good"]
        /\ (call.pollutant = "PM2.5" /\ call.concentration = 708) =>
              ret.value = [aqi |-> 100, category |-> "Moderate"]

\* C2: for a concentration C inside the breakpoint (C_low, C_high, I_low, I_high) the
\* returned index is the integer nearest to the exact interpolation
\* (I_high-I_low)/(C_high-C_low)*(C-C_low)+I_low (at most 1/2 away from it), and it
\* lies between I_low and I_high.
C2_AqiIsRoundedInterpolation ==
    AqiReturned =>
        \A i \in 1..(IF call.pollutant \in DOMAIN breakpoints
                     THEN Len(breakpoints[call.pollutant]) ELSE 0) :
            LET c_low == 2 * breakpoints[call.pollutant][i][1]
                c_high == 2 * breakpoints[call.pollutant][i][2]
                i_low == breakpoints[call.pollutant][i][3]
                i_high == breakpoints[call.pollutant][i][4]
                c == call.concentration
            IN  (c_low <= c /\ c <= c_high) =>
                   /\ ret.value.aqi \in i_low..i_high
                   /\ 2 * Abs(ret.value.aqi * (c_high - c_low)
                              - ((i_high - i_low) * (c - c_low) + i_low * (c_high - c_low)))
                        <= c_high - c_low

\* PM2.5 at 25.0 ug/m3: 49/23.3*(25.0-12.1)+51 = 78.13, returned as 78.
C2_Witness ==
    /\ AqiReturned
    /\ call.pollutant = "PM2.5"
    /\ call.concentration = 500
    /\ ret.value.aqi = 78

\* The top of the pollutant's breakpoint table, in 1/20 ug/m3.
TopBreakpoint(pollutant) ==
    2 * breakpoints[pollutant][Len(breakpoints[pollutant])][2]

\* C19: a concentration above the top breakpoint of its pollutant gives index 500 and
\* category Hazardous (PM2.5 at 600 among them), and every concentration >= 0 gives an
\* index in 0..500.
C19_AboveTopIsHazardous500 ==
    (AqiReturned /\ call.pollutant \in DOMAIN breakpoints /\ call.concentration >= 0) =>
        /\ ret.value.aqi \in 0..500
        /\ call.concentration > TopBreakpoint(call.pollutant) =>
              ret.value = [aqi |-> 500, category |-> "Hazardous"]

\* PM2.5 at 600 ug/m3, above the top breakpoint 500.4.
C19_Witness ==
    /\ AqiReturned
    /\ call.pollutant = "PM2.5"
    /\ call.concentration = 12000
    /\ call.concentration > TopBreakpoint("PM2.5")
    /\ ret.value = [aqi |-> 500, category |-> "Hazardous"]

\* C25: the index is monotonically non-decreasing in the concentration: the index of
\* the call's concentration is no lower than that of any lower concentration >= 0 of
\* its pollutant, here the ones 1/20 ug/m3 and 1 ug/m3 below it, which between them
\* chain all the concentrations examined (the gaps between two breakpoint ranges
\* included).
C25_AqiMonotone ==
    (AqiReturned /\ call.pollutant \in DOMAIN breakpoints) =>
        \A c1 \in {call.concentration - 1, call.concentration - 20} \cap Concentrations :
            calculate_aqi(call.pollutant, c1).aqi <= ret.value.aqi

(***************************************************************************)
(* Claims about the normalizer and harmonize_all_data, checked under       *)
(* SpecHarmonizer.                                                         *)
(***************************************************************************)

NormalizeDone == call.op = "_normalize_value" /\ ret # NoRet

\* C3: for a numeric raw value v, the normalizer returns v*table[p][u] when (p,u) is
\* in the conversion table and v itself when the pollutant or the unit is not; for
\* the canonical unit the result is v.  (Values in 1/1000 ug/m3: v itself is 1000*v.)
C3_NormalizeByTable ==
    (NormalizeDone /\ IsNum(call.value)) =>
        LET p == call.pollutant
            u == call.unit
            v == call.value.v
            tabled == p \in DOMAIN CONVERSION_FACTORS /\ u \in DOMAIN CONVERSION_FACTORS[p]
        IN  /\ tabled => ret = Return(Num(v * CONVERSION_FACTORS[p][u]))
            /\ ~tabled => ret = Return(Num(1000 * v))
            /\ u = "ug/m3" => ret = Return(Num(1000 * v))

\* NO2, 2 ppb: 3.76 ug/m3; and SO2 in a unit its table does not list: unchanged.
C3_Witness ==
    \/ /\ NormalizeDone
       /\ call.pollutant = "NO2" /\ call.unit = "ppb" /\ call.value = Num(2)
       /\ ret = Return(Num(3760))
    \/ /\ NormalizeDone
       /\ call.pollutant = "SO2" /\ call.unit = "mg/m3" /\ call.value = Num(2)
       /\ ret = Return(Num(2000))

HarmonizeDone == call.op = "harmonize_all_data" /\ ret # NoRet

\* The raw records of the call, satellite first, each with its source.
RawBatch ==
    [i \in 1..(Len(call.tempo_data) + Len(call.ground_data)) |->
        IF i <= Len(call.tempo_data)
        THEN [raw |-> call.tempo_data[i], data_type |-> "satellite"]
        ELSE [raw |-> call.ground_data[i - Len(call.tempo_data)], data_type |-> "ground"]]

\* A raw record is well-formed when lat and lon are numbers and the value is a number
\* or missing.
WellFormed(raw) ==
    /\ raw.lat.t = "num"
    /\ raw.lon.t = "num"
    /\ raw.value.t \in {"num", "None", "nan"}

WellFormedBatch == SelectSeq(RawBatch, LAMBDA x : WellFormed(x.raw))

\* C4: every output record carries its value in the canonical unit: a satellite or
\* ground record with a numeric value whose raw unit u is in the conversion table of
\* its pollutant comes out with the value times table[pollutant][u].
C4_ValueInCanonicalUnit ==
    HarmonizeDone =>
        /\ ret.kind = "return"
        /\ Len(ret.value) = Len(WellFormedBatch)
        /\ \A i \in 1..Len(WellFormedBatch) :
              LET raw == WellFormedBatch[i].raw
                  p == raw.pollutant_type
              IN  (/\ IsNum(raw.value)
                   /\ p \in DOMAIN CONVERSION_FACTORS
                   /\ raw.unit \in DOMAIN CONVERSION_FACTORS[p])
                  => ret.value[i].value = Num(raw.value.v * CONVERSION_FACTORS[p][raw.unit])

\* C5: harmonize_all_data does not raise, drops exactly the records whose
\* harmonization fails, and returns the well-formed records of the batch, one output
\* record each, satellite before ground, in input order.
C5_BadRecordDroppedBatchContinues ==
    HarmonizeDone =>
        /\ ret.kind = "return"
        /\ Len(ret.value) = Len(WellFormedBatch)
        /\ \A i \in 1..Len(WellFormedBatch) :
              /\ ret.value[i].data_type = WellFormedBatch[i].data_type
              /\ ret.value[i].pollutant_type = WellFormedBatch[i].raw.pollutant_type
              /\ ret.value[i].lat = WellFormedBatch[i].raw.lat
              /\ ret.value[i].lon = WellFormedBatch[i].raw.lon

\* A satellite record without lat is followed by a good ground record: one record, the
\* ground one, comes out.
C5_Witness ==
    /\ HarmonizeDone
    /\ Len(call.tempo_data) = 1 /\ call.tempo_data[1].lat = None
    /\ Len(call.ground_data) = 1 /\ WellFormed(call.ground_data[1])
    /\ ret.kind = "return"
    /\ Len(ret.value) = 1
    /\ ret.value[1].data_type = "ground"

\* C15: the result of harmonize_all_data is determined by its three arguments: whatever
\* the clock reads during the call, the same record sequence comes out.
C15_HarmonizeDeterministic ==
    HarmonizeDone =>
        \A nows \in ClockReadings(Len(call.tempo_data) + Len(call.ground_data)) :
            ret = Return(harmonize_all_data(call.tempo_data, call.ground_data,
                                            call.weather_data, nows))

\* The weather samples of the call closer than 0.5 degree to an output record.
NearSamples(record) ==
    { i \in 1..Len(call.weather_data) :
        Distance2(record.lat.v, record.lon.v, call.weather_data[i]) < 25 }

\* C16: an output record has a weather_context exactly when a weather sample lies
\* closer than 0.5 degree, the context is then that of a sample at minimum distance,
\* and a record without such a sample carries no weather_context.
C16_WeatherContextIffNearSample ==
    HarmonizeDone =>
        \A i \in 1..Len(ret.value) :
            LET record == ret.value[i]
                near == NearSamples(record)
            IN  IF near = {}
                THEN record.weather_context = NoWeatherContext
                ELSE /\ record.weather_context.t = "context"
                     /\ \E k \in near :
                           /\ \A j \in near :
                                 Distance2(record.lat.v, record.lon.v, call.weather_data[k])
                                   <= Distance2(record.lat.v, record.lon.v,
                                                call.weather_data[j])
                           /\ record.weather_context.temperature =
                                 call.weather_data[k].temperature

\* The pollutants of the unified schema.
CanonicalPollutants == {"PM2.5", "PM10", "O3", "NO2", "CO", "SO2", "HCHO"}

\* C17: every output record's pollutant_type is one of the canonical pollutants.
C17_PollutantTypeCanonical ==
    HarmonizeDone =>
        \A i \in 1..Len(ret.value) : ret.value[i].pollutant_type \in CanonicalPollutants

\* C18: every output record's timestamp is an ISO-8601 timestamp.
C18_TimestampIsIso ==
    HarmonizeDone => \A i \in 1..Len(ret.value) : ret.value[i].timestamp.fmt = "iso"

(***************************************************************************)
(* Claims about DataValidator, checked under SpecValidator.                *)
(***************************************************************************)

ValidateDone == call.op = "validate_against_ground" /\ ret # NoRet

\* Satellite record t has a ground record of the same pollutant within the distance
\* and the time difference of the call, both inclusive.
HasGroundMatch(t) ==
    \E k \in 1..Len(call.ground_data) :
        LET g == call.ground_data[k]
        IN  /\ g.pollutant_type = t.pollutant_type
            /\ _haversine_distance(t.point, g.point) <= call.max_distance
            /\ Abs(g.timestamp - t.timestamp) <= call.max_time_diff

MatchedTempo == SelectSeq(call.tempo_data, HasGroundMatch)

\* C6: validate_against_ground returns, without raising, exactly one result for each
\* satellite record that has at least one matching ground record, in satellite input
\* order, and none for a satellite record without a match.
C6_OneResultPerMatchedRecord ==
    ValidateDone =>
        /\ ret.kind = "return"
        /\ Len(ret.value) = Len(MatchedTempo)
        /\ \A i \in 1..Len(MatchedTempo) :
              /\ ret.value[i].pollutant_type = MatchedTempo[i].pollutant_type
              /\ ret.value[i].timestamp = MatchedTempo[i].timestamp
              /\ ret.value[i].tempo_value = MatchedTempo[i].value

MetricsDone == call.op = "_calculate_validation_metrics" /\ ret # NoRet

\* C7: with n ground matches of sum S (ground_mean = S/n), relative_diff is
\* |tempo_value - ground_mean| / ground_mean = |n*tempo_value - S| / S when the mean
\* is positive and 0 otherwise; confidence is max(0, 1 - relative_diff), inside [0,1];
\* the level is "high" from 0.8, "medium" from 0.6, else "low"; high_discrepancy holds
\* exactly when relative_diff > discrepancy_threshold; 25.0 against [28.0] is "high".
C7_ValidationMetrics ==
    MetricsDone =>
        LET n == Len(call.ground_values)
            S == SumSeq(call.ground_values)
            r == ret.value
            rd == r.relative_diff
            cf == r.confidence
        IN  /\ rd.den > 0 /\ rd.num >= 0
            /\ S > 0 => rd.num * S = Abs(n * call.tempo_value - S) * rd.den
            /\ S <= 0 => rd.num = 0
            /\ cf.den > 0 /\ 0 <= cf.num /\ cf.num <= cf.den
            /\ cf.num * rd.den = cf.den * Max(0, rd.den - rd.num)
            /\ r.confidence_level = "high" <=> 10 * cf.num >= 8 * cf.den
            /\ r.confidence_level = "medium" <=>
                  (10 * cf.num < 8 * cf.den /\ 10 * cf.num >= 6 * cf.den)
            /\ r.confidence_level = "low" <=> 10 * cf.num < 6 * cf.den
            /\ r.high_discrepancy <=>
                  100 * rd.num > call.discrepancy_threshold * rd.den
            /\ (call.tempo_value = 25 /\ call.ground_values = <<28>>) =>
                  r.confidence_level = "high"

\* The module's example, 25.0 against [28.0] (relative_diff 3/28), and a result whose
\* relative_diff is exactly the threshold 0.30 and is not a high discrepancy.
C7_Witness ==
    /\ MetricsDone
    /\ \/ /\ call.tempo_value = 25 /\ call.ground_values = <<28>>
          /\ ret.value.relative_diff = Rat(3, 28)
          /\ ret.value.confidence_level = "high"
       \/ /\ call.tempo_value = 7 /\ call.ground_values = <<10>>
          /\ call.discrepancy_threshold = 30
          /\ ~ret.value.high_discrepancy
          /\ ret.value.confidence_level = "medium"

FlagDone == call.op = "flag_anomalies" /\ ret # NoRet

\* C8: flag_anomalies does not raise, and returns every member of a pollutant
\* partition of size <= 2 with is_anomaly = false, also when every partition of the
\* batch has size <= 2.
C8_SmallPartitionsNotAnomalous ==
    FlagDone =>
        /\ ret.kind = "return"
        /\ Len(ret.value) = Len(call.data)
        /\ \A i \in 1..Len(call.data) :
              Cardinality({ j \in 1..Len(call.data) :
                              call.data[j].pollutant_type = call.data[i].pollutant_type }) <= 2
              => ret.value[i].is_anomaly = FALSE

\* C28: flag_anomalies marks a record of a pollutant partition with more than 2
\* samples and non-zero variance exactly when z > z_threshold, z being the distance of
\* its value from the partition's mean over the population standard deviation of the
\* partition's n values: z^2 = (n*v - S)^2 * n / (sum of the squares of n*v_j - S).
C28_AnomalyIffPopulationZAboveThreshold ==
    (FlagDone /\ ret.kind = "return") =>
        \A i \in 1..Len(call.data) :
            LET part == Partition(call.data, i)
                n == Cardinality(part)
                ss == SquaredDeviations(call.data, part)
                dev == n * call.data[i].value - PartitionSum(call.data, part)
            IN  (n > 2 /\ ss > 0) =>
                   (ret.value[i].is_anomaly
                       <=> 100 * dev * dev * n > call.z_threshold * call.z_threshold * ss)

\* C29: with the default discrepancy threshold 0.30 no result is both a high
\* discrepancy and of confidence level "high": a high discrepancy has confidence below
\* 0.7; and a result whose ground mean is <= 0 has relative_diff 0, confidence 1, level
\* "high" and no high discrepancy, whatever the satellite value.
C29_HighDiscrepancyIsNeverHighConfidence ==
    (MetricsDone /\ call.discrepancy_threshold = 30) =>
        LET r == ret.value
        IN  /\ ~(r.high_discrepancy /\ r.confidence_level = "high")
            /\ r.high_discrepancy => 10 * r.confidence.num < 7 * r.confidence.den
            /\ SumSeq(call.ground_values) <= 0 =>
                  /\ r.relative_diff.num = 0
                  /\ r.confidence.num = r.confidence.den
                  /\ r.confidence_level = "high"
                  /\ ~r.high_discrepancy

\* Under the default threshold: a satellite value 6 against ground values of mean 10
\* (relative_diff 0.4, a high discrepancy of level "medium"), and a satellite value 10
\* against a ground mean of 0 (no discrepancy, level "high").
C29_Witness ==
    /\ MetricsDone
    /\ call.discrepancy_threshold = 30
    /\ \/ /\ call.tempo_value = 6 /\ call.ground_values = <<10, 10>>
          /\ ret.value.high_discrepancy
          /\ ret.value.confidence_level = "medium"
       \/ /\ call.tempo_value = 10 /\ call.ground_values = <<-1, 1>>
          /\ ~ret.value.high_discrepancy
          /\ ret.value.confidence_level = "high"

(***************************************************************************)
(* Claims about the forecasting engine, checked under SpecEngine.          *)
(***************************************************************************)

PredictDone == call.op = "predict"

\* The latest timestamp of the series handed to the call.
LastKnownTimestamp ==
    LET timestamps == { call.df.timestamp[i] : i \in 1..Len(call.df.timestamp) }
    IN  CHOOSE t \in timestamps : \A u \in timestamps : u <= t

\* C9: when a model for the call's pollutant is loaded, predict returns exactly
\* `hours` forecast points, the i-th with forecast_hour i and the timestamp i hours
\* after the last known timestamp of the series.
C9_PredictReturnsHoursPoints ==
    (PredictDone /\ call.pollutant \in DOMAIN models) =>
        /\ ret.kind = "return"
        /\ Len(ret.value) = call.hours
        /\ \A i \in 1..call.hours :
              /\ ret.value[i].forecast_hour = i
              /\ ret.value[i].timestamp = Iso(LastKnownTimestamp + i)

\* C10: whatever train_model and load_model calls came before, the column list predict
\* selects from the last feature row is the one persisted together with the model of
\* the call's pollutant.
C10_PredictUsesPersistedFeatureList ==
    (PredictDone /\ selected_columns # NotSelected) =>
        selected_columns =
            model_dir[<<call.pollutant, models[call.pollutant].model_type>>].features

\* C11: a predict call for a pollutant without a model in the registry returns the
\* empty sequence, raises nothing, and leaves the registry, the feature-column list and
\* the persisted artifacts as they were.
C11_PredictWithoutModelIsEmpty ==
    [][(call'.op = "predict" /\ call'.pollutant \notin DOMAIN models) =>
          /\ ret' = Return(<<>>)
          /\ models' = models
          /\ feature_columns' = feature_columns
          /\ model_dir' = model_dir]_vars

\* A predict for a pollutant without a model, made while the other pollutant has one
\* in memory and on disk.
C11_Witness ==
    /\ PredictDone
    /\ call.pollutant \notin DOMAIN models
    /\ models # EmptyDict
    /\ model_dir # EmptyDict
    /\ call.hours > 0
    /\ Len(call.df.timestamp) > WarmUp
    /\ ret = Return(<<>>)

\* C12: with a model for the pollutant in the registry, a predict on a series of
\* WarmUp rows or fewer (no engineered feature row is left) returns the empty sequence
\* and does not raise.
C12_ShortSeriesGivesEmptyForecast ==
    (PredictDone /\ call.pollutant \in DOMAIN models /\ Len(call.df.timestamp) <= WarmUp)
        => ret = Return(<<>>)

\* The artifact a successful train_model call with these arguments persists.
ArtifactOf(c) ==
    LET model == FittedModel(c.pollutant, c.model_type, FeatureLists[c.df],
                             X_train(PreparedFrames[c.df].value.timestamp))
    IN  [model |-> model, features |-> FeatureLists[c.df]]

SeriesValue(at) ==
    IF at > LastKnownTimestamp
    THEN ret.value[at - LastKnownTimestamp].predicted_value
    ELSE IF \E i \in 1..Len(call.df.timestamp) : call.df.timestamp[i] = at
    THEN Observed(at)
    ELSE NaN

\* C22: in a returned forecast over an hourly series, every lag feature lag_k of the
\* row used at a step after the first holds the series value (observed or predicted) k
\* hours before the timestamp that step predicts.
C22_LagWindowShifted ==
    (PredictDone /\ ret.kind = "return") =>
        \A h \in 1..(Len(ret.value) - 1) : \A j \in 1..Len(lags) :
            LagName(lags[j]) \in DOMAIN X_pred[h + 1] =>
                X_pred[h + 1][LagName(lags[j])]
                    = SeriesValue(LastKnownTimestamp + (h + 1) - lags[j])

\* C23: in a returned forecast, the row used at step h + 1 carries the hour, and its
\* sine and cosine encodings, of the timestamp that step predicts: the last known
\* timestamp plus h + 1 hours.
C23_HourFeaturesOfPredictedTimestamp ==
    (PredictDone /\ ret.kind = "return") =>
        \A h \in 1..(Len(ret.value) - 1) :
            LET hour == HourOf(LastKnownTimestamp + (h + 1))
            IN  /\ X_pred[h + 1]["hour"] = Num(hour)
                /\ X_pred[h + 1]["hour_sin"] = hour_sin(hour)
                /\ X_pred[h + 1]["hour_cos"] = hour_cos(hour)

\* C24: a train_model call that raises leaves the registry, the engine's
\* feature-column list and the persisted artifacts as they were before the call.
C24_FailedTrainingChangesNothing ==
    [][(call'.op = "train_model" /\ ret'.kind = "raise") =>
          /\ models' = models
          /\ feature_columns' = feature_columns
          /\ model_dir' = model_dir]_vars

(***************************************************************************)
(* Claims about the scheduler, checked under SpecScheduler.                *)
(***************************************************************************)

C26_ForecastCycleStoresForecasts ==
    (call.op = "generate_forecasts" /\ call.recent_data) =>
        \A k \in 1..Len(pollutants) :
            (\E key \in DOMAIN model_dir : key[1] = pollutants[k])
                => pollutants[k] \in db.forecasts

\* C27: a processing cycle that read satellite and ground data and harmonized some
\* record has, when it ends, run the stages harmonize, validate and flag anomalies in
\* this order, and validation results are in the database only with harmonized
\* records.
C27_CycleRunsThreeStagesInOrder ==
    (call.op = "harmonize_and_validate" /\ call.tempo_data /\ call.ground_data
        /\ call.harmonized) =>
        /\ call.stages = <<"harmonize", "validate", "flag_anomalies">>
        /\ db.validation_results => db.harmonized_data

(***************************************************************************)
(* Claims about the batch operations together, checked under               *)
(* SpecProcessing.                                                         *)
(***************************************************************************)

\* C20: on empty input the batch operations return an empty result and do not raise:
\* harmonize_all_data of three empty lists and flag_anomalies of an empty list return
\* the empty list, validate_against_ground with an empty satellite or ground list
\* returns the empty list, and generate_quality_report of an empty list returns a
\* report with total_validations 0.
C20_EmptyInputEmptyResult ==
    /\ (HarmonizeDone /\ call.tempo_data = <<>> /\ call.ground_data = <<>>
          /\ call.weather_data = <<>>) => ret = Return(<<>>)
    /\ (ValidateDone /\ (call.tempo_data = <<>> \/ call.ground_data = <<>>))
          => ret = Return(<<>>)
    /\ (FlagDone /\ call.data = <<>>) => ret = Return(<<>>)
    /\ (call.op = "generate_quality_report" /\ ret # NoRet
          /\ call.validation_results = <<>>)
          => (ret.kind = "return" /\ ret.value.total_validations = 0)

\* validate_against_ground has returned for satellite records and no ground record.
C20_Witness ==
    /\ ValidateDone
    /\ call.tempo_data # <<>>
    /\ call.ground_data = <<>>
    /\ ret = Return(<<>>)

(***************************************************************************)
(* Claims about the NASA services integration, checked under SpecNasa.     *)
(***************************************************************************)

\* C30: get_nasa_air_quality does not raise, and whenever the services are
\* unavailable or the bridged call fails or times out it returns a fallback record for
\* the coordinates asked for whose aqi lies in 15..300, for urban and for rural
\* coordinates alike.
C30_FallbackNeverRaises ==
    call.op = "get_nasa_air_quality" =>
        /\ ret.kind = "return"
        /\ (~services_available \/ call.bridge # "json") =>
              /\ ret.value.aqi \in 15..300
              /\ ret.value.location = [lat |-> call.lat, lon |-> call.lon]

====
